---- MODULE Spec2Model ----
(***************************************************************************)
(* Model of sm_device_tagging.py: one pass that tags the devices of a      *)
(* Systems Manager network by cellular capability.                         *)
(*                                                                         *)
(* The remote service is the variable inventory (the devices it holds,     *)
(* with their tags); the script's own state is its arguments, its local    *)
(* lists and its position pc.  calls is the history of the mutation calls  *)
(* the script has issued (modifyNetworkSmDevicesTags), kept for the        *)
(* properties only.                                                        *)
(***************************************************************************)
EXTENDS Integers, Sequences, FiniteSets, TLC

VARIABLES
    cellular_tag,     \* args.cellular_tag
    wifi_tag,         \* args.wifi_tag
    remove_wrong,     \* args.remove_wrong
    inventory,        \* the remote service: sequence of device records
    devices,          \* main: the list returned by getNetworkSmDevices
    tag_cellular,     \* main: queue, add cellular tag
    tag_wifi,         \* main: queue, add wifi tag
    untag_cellular,   \* main: queue, delete cellular tag
    untag_wifi,       \* main: queue, delete wifi tag
    has_cell,         \* main: has_cell of each loop iteration ("skipped" after continue)
    pc,               \* position of the script
    phase,            \* which of main's four calls of batch_modify_tags is running
    serials,          \* batch_modify_tags: parameter serials
    tag,              \* batch_modify_tags: parameter tag
    action,           \* batch_modify_tags: parameter action
    i,                \* batch_modify_tags: loop variable
    ret,              \* batch_modify_tags: where it returns to
    run,              \* number of the invocation of the script
    calls             \* history of the mutation calls issued

vars == <<cellular_tag, wifi_tag, remove_wrong, inventory, devices, tag_cellular,
          tag_wifi, untag_cellular, untag_wifi, has_cell, pc, phase, serials, tag,
          action, i, ret, run, calls>>

args == <<cellular_tag, wifi_tag, remove_wrong>>
queues == <<tag_cellular, tag_wifi, untag_cellular, untag_wifi, has_cell>>
frame == <<phase, serials, tag, action, i, ret>>

(***************************************************************************)
(* Values                                                                  *)
(***************************************************************************)
\* Python's None, told apart from every string the service returns.
None == "<None>"

DEFAULT_CELLULAR_TAG == "Store_Ipad"
DEFAULT_WIFI_ONLY_TAG == "Curbside_iPad"
\* A tag that is neither policy tag.
OtherTag == "Other"

max_batch == 20

\* Bounds of the model.
\* The inventory lists at most MaxDevices kinds of device.
MaxDevices == 2
\* Each kind is listed once or BulkRep times: more than one batch per queue.
BulkRep == 21
\* Invocations of the script in a row (RerunSpec).
MaxRuns == 2
\* Longest list handed to batch_modify_tags on its own (BatchSpec).
MaxSerials == 45

Min(a, b) == IF a < b THEN a ELSE b

\* A JSON value of the "tags" field: null, or a list (kept as the set of its items,
\* the script reads it through set(...) only).
NullTags == [null |-> TRUE, list |-> {}]
TagList(s) == [null |-> FALSE, list |-> s]

DeviceIdAt(p) == "D" \o ToString(p)

(***************************************************************************)
(* The planner of main (lines 124-173)                                     *)
(***************************************************************************)
\* Only the empty string tested: a null id passes.
IsMissingIdEmptyOnly(device_id) == device_id = ""

\* `not device_id`: None and the empty string are falsy.
IsMissingId(device_id) == device_id \in {None, ""}

\* Truthiness instead of `is None`.
HasCellTruthy(device) ==
    \E f \in {device.imei, device.iccid, device.simCarrierNetwork, device.phoneNumber} :
        f \notin {None, ""}

\* has_cell = not all(f is None for f in fields)
HasCell(device) ==
    LET fields == <<device.imei, device.iccid, device.simCarrierNetwork,
                    device.phoneNumber>>
    IN  ~ (\A k \in 1..Len(fields) : fields[k] = None)

\* set(device.get("tags") or [])
CurrentTags(device) == IF device.tags.null THEN {} ELSE device.tags.list

CorrectTag(hc) == IF hc THEN cellular_tag ELSE wifi_tag

\* wrong_tag computed like correct_tag.
WrongTagSame(hc) == IF hc THEN cellular_tag ELSE wifi_tag

WrongTag(hc) == IF hc THEN wifi_tag ELSE cellular_tag

\* A missing else: the wifi queue is appended to for every device lacking its tag.
AddStepNoElse(plan, device_id, hc, current_tags) ==
    IF CorrectTag(hc) \notin current_tags
    THEN LET p == IF hc THEN [plan EXCEPT !.tag_cellular = Append(@, device_id)]
                        ELSE plan
         IN  [p EXCEPT !.tag_wifi = Append(@, device_id)]
    ELSE plan

\* lines 150-160
AddStep(plan, device_id, hc, current_tags) ==
    IF CorrectTag(hc) \notin current_tags
    THEN IF hc THEN [plan EXCEPT !.tag_cellular = Append(@, device_id)]
               ELSE [plan EXCEPT !.tag_wifi = Append(@, device_id)]
    ELSE plan

\* The remove-wrong flag ignored.
RemoveStepAlways(plan, device_id, hc, current_tags) ==
    IF WrongTag(hc) \in current_tags
    THEN IF hc THEN [plan EXCEPT !.untag_wifi = Append(@, device_id)]
               ELSE [plan EXCEPT !.untag_cellular = Append(@, device_id)]
    ELSE plan

\* lines 163-173
RemoveStep(plan, device_id, hc, current_tags) ==
    IF remove_wrong
    THEN IF WrongTag(hc) \in current_tags
         THEN IF hc THEN [plan EXCEPT !.untag_wifi = Append(@, device_id)]
                    ELSE [plan EXCEPT !.untag_cellular = Append(@, device_id)]
         ELSE plan
    ELSE plan

\* One iteration of `for device in devices`.
PlanDevice(plan, device) ==
    LET device_id == device.id
    IN  IF IsMissingId(device_id)
        THEN [plan EXCEPT !.has_cell = Append(@, "skipped")]
        ELSE LET hc == HasCell(device)
                 current_tags == CurrentTags(device)
                 p1 == AddStep(plan, device_id, hc, current_tags)
                 p2 == RemoveStep(p1, device_id, hc, current_tags)
             IN  [p2 EXCEPT !.has_cell = Append(@, IF hc THEN "True" ELSE "False")]

EmptyPlan ==
    [tag_cellular |-> <<>>, tag_wifi |-> <<>>, untag_cellular |-> <<>>,
     untag_wifi |-> <<>>, has_cell |-> <<>>]

\* `for device in devices`: the plan after the first n devices is the n-th
\* iteration applied to the plan after the first n - 1.  The plan so far is bound
\* as the one element of a set, so that TLC evaluates it once, before the iteration.
RECURSIVE PlanLoop(_, _)
PlanLoop(devs, n) ==
    IF n = 0 THEN EmptyPlan
    ELSE CHOOSE next \in {PlanDevice(plan, devs[n]) : plan \in {PlanLoop(devs, n - 1)}} :
             TRUE

Plan(devs) == PlanLoop(devs, Len(devs))

(***************************************************************************)
(* The four calls of batch_modify_tags in main (lines 175-191)             *)
(***************************************************************************)
Phases == {"add_cellular", "add_wifi", "untag_cellular", "untag_wifi"}

\* The two add calls swapped.
SuccessorSwapped(p) ==
    CASE p = "plan" -> "add_wifi"
      [] p = "add_wifi" -> "add_cellular"
      [] p = "add_cellular" -> "untag_cellular"
      [] p = "untag_cellular" -> "untag_wifi"
      [] p = "untag_wifi" -> "done"

\* The statement that follows p in main.
Successor(p) ==
    CASE p = "plan" -> "add_cellular"
      [] p = "add_cellular" -> "add_wifi"
      [] p = "add_wifi" -> "untag_cellular"
      [] p = "untag_cellular" -> "untag_wifi"
      [] p = "untag_wifi" -> "done"

QueueOf(p) ==
    CASE p = "add_cellular" -> tag_cellular
      [] p = "add_wifi" -> tag_wifi
      [] p = "untag_cellular" -> untag_cellular
      [] p = "untag_wifi" -> untag_wifi

PhaseTag(p) == IF p \in {"add_cellular", "untag_cellular"} THEN cellular_tag ELSE wifi_tag

\* "delete" pasted into the second add call.
PhaseActionPasted(p) == IF p = "add_cellular" THEN "add" ELSE "delete"

PhaseAction(p) == IF p \in {"add_cellular", "add_wifi"} THEN "add" ELSE "delete"

\* `if args.remove_wrong:` guards the two delete calls.
PhaseEnabled(p) == p \in {"add_cellular", "add_wifi"} \/ remove_wrong

(***************************************************************************)
(* batch_modify_tags (lines 65-82)                                         *)
(***************************************************************************)
\* An off-by-one slice.
BatchSliceShort(s, k) == SubSeq(s, k + 1, Min(k + max_batch - 1, Len(s)))

\* serials[i:i + max_batch]
BatchSlice(s, k) == SubSeq(s, k + 1, Min(k + max_batch, Len(s)))

\* The exception swallowed: the loop goes on.
FailedCallPcSwallowed == "batch"

\* modifyNetworkSmDevicesTags raises: nothing in the script catches it.
FailedCallPc == "crashed"

Range(s) == {s[k] : k \in 1..Len(s)}

\* The service's effect of one mutation call on one device's tags.
ApplyTags(d, ids, tags, updateAction) ==
    IF d.id \in Range(ids)
    THEN IF updateAction = "add"
         THEN [d EXCEPT !.tags = TagList(CurrentTags(d) \cup Range(tags))]
         ELSE [d EXCEPT !.tags = TagList(CurrentTags(d) \ Range(tags))]
    ELSE d

ApplyCall(inv, ids, tags, updateAction) ==
    [p \in 1..Len(inv) |-> ApplyTags(inv[p], ids, tags, updateAction)]

Call(ids, ok) ==
    [run |-> run, queue |-> phase, ids |-> ids, tags |-> <<tag>>,
     updateAction |-> action, ok |-> ok]

BatchCallOk ==
    /\ pc = "batch"
    /\ i < Len(serials)
    /\ LET batch == BatchSlice(serials, i)
       IN  /\ calls' = Append(calls, Call(batch, TRUE))
           /\ inventory' = ApplyCall(inventory, batch, <<tag>>, action)
    /\ i' = i + max_batch
    /\ UNCHANGED <<args, devices, queues, pc, phase, serials, tag, action, ret, run>>

BatchCallFail ==
    /\ pc = "batch"
    /\ i < Len(serials)
    /\ calls' = Append(calls, Call(BatchSlice(serials, i), FALSE))
    /\ pc' = FailedCallPc
    /\ UNCHANGED <<args, inventory, devices, queues, frame, run>>

BatchReturn ==
    /\ pc = "batch"
    /\ i >= Len(serials)
    /\ pc' = ret
    /\ UNCHANGED <<args, inventory, devices, queues, frame, run, calls>>

(***************************************************************************)
(* main (lines 85-193)                                                     *)
(***************************************************************************)
\* lines 100-104
Start ==
    /\ pc = "start"
    /\ \E api_key \in {None, "", "key"} :
           pc' = IF api_key \in {None, ""} THEN "exit" ELSE "resolve"
    /\ UNCHANGED <<args, inventory, devices, queues, frame, run, calls>>

\* lines 108-114 with resolve_network_id: any exception ends in SystemExit.
Resolve ==
    /\ pc = "resolve"
    /\ \E outcome \in {"found", "org_not_found", "network_not_found", "api_error"} :
           pc' = IF outcome = "found" THEN "fetch" ELSE "exit"
    /\ UNCHANGED <<args, inventory, devices, queues, frame, run, calls>>

\* lines 117-122
FetchOk ==
    /\ pc = "fetch"
    /\ devices' = inventory
    /\ pc' = "plan"
    /\ UNCHANGED <<args, inventory, queues, frame, run, calls>>

FetchFail ==
    /\ pc = "fetch"
    /\ pc' = "crashed"
    /\ UNCHANGED <<args, inventory, devices, queues, frame, run, calls>>

\* lines 124-173
PlanStep ==
    /\ pc = "plan"
    /\ \E plan \in {Plan(devices)} :
           /\ tag_cellular' = plan.tag_cellular
           /\ tag_wifi' = plan.tag_wifi
           /\ untag_cellular' = plan.untag_cellular
           /\ untag_wifi' = plan.untag_wifi
           /\ has_cell' = plan.has_cell
    /\ pc' = Successor("plan")
    /\ UNCHANGED <<args, inventory, devices, frame, run, calls>>

\* One of the four `if queue: batch_modify_tags(...)`, the call taken.
EnterPhaseCall ==
    /\ pc \in Phases
    /\ PhaseEnabled(pc) /\ Len(QueueOf(pc)) > 0
    /\ phase' = pc
    /\ serials' = QueueOf(pc)
    /\ tag' = PhaseTag(pc)
    /\ action' = PhaseAction(pc)
    /\ i' = 0
    /\ ret' = Successor(pc)
    /\ pc' = "batch"
    /\ UNCHANGED <<args, inventory, devices, queues, run, calls>>

EnterPhaseSkip ==
    /\ pc \in Phases
    /\ ~ (PhaseEnabled(pc) /\ Len(QueueOf(pc)) > 0)
    /\ pc' = Successor(pc)
    /\ UNCHANGED <<args, inventory, devices, queues, frame, run, calls>>

\* The script is invoked again after a completed invocation; nothing else has
\* touched the service in between.
Rerun ==
    /\ pc = "done"
    /\ run < MaxRuns
    /\ run' = run + 1
    /\ pc' = "start"
    /\ devices' = <<>>
    /\ tag_cellular' = <<>> /\ tag_wifi' = <<>>
    /\ untag_cellular' = <<>> /\ untag_wifi' = <<>>
    /\ has_cell' = <<>>
    /\ phase' = "none" /\ serials' = <<>> /\ tag' = None /\ action' = None
    /\ i' = 0 /\ ret' = "none"
    /\ UNCHANGED <<args, inventory, calls>>

(***************************************************************************)
(* Initial states                                                          *)
(***************************************************************************)
TagNames == {DEFAULT_CELLULAR_TAG, DEFAULT_WIFI_ONLY_TAG}

\* What the four cellular fields of a device hold.
NoCellular == [imei |-> None, iccid |-> None, simCarrierNetwork |-> None,
               phoneNumber |-> None]
SomeCellular == [imei |-> "356938035643809", iccid |-> None,
                 simCarrierNetwork |-> "Carrier", phoneNumber |-> None]

\* The values of the "tags" field devices start with: null for no tag, one policy
\* tag, or both with a third.
InitialTags ==
    {NullTags, TagList({DEFAULT_CELLULAR_TAG}), TagList({DEFAULT_WIFI_ONLY_TAG}),
     TagList({DEFAULT_CELLULAR_TAG, DEFAULT_WIFI_ONLY_TAG, OtherTag})}

\* A kind of device record: its id (valid, null, empty), its cellular fields, its tags.
Kinds ==
    [id : {"valid"}, cell : {NoCellular, SomeCellular}, tags : InitialTags]
    \cup [id : {None, ""}, cell : {SomeCellular}, tags : {TagList({DEFAULT_WIFI_ONLY_TAG})}]

Device(kind, p) ==
    [id |-> IF kind.id = "valid" THEN DeviceIdAt(p) ELSE kind.id,
     imei |-> kind.cell.imei, iccid |-> kind.cell.iccid,
     simCarrierNetwork |-> kind.cell.simCarrierNetwork,
     phoneNumber |-> kind.cell.phoneNumber,
     tags |-> kind.tags]

\* The inventory made of rep consecutive devices of each kind of ks.  A device with
\* an identifier has one of its own: the identifier is the service's key.
Inventory(ks, rep) ==
    [p \in 1..(Len(ks) * rep) |-> Device(ks[((p - 1) \div rep) + 1], p)]

KindLists == UNION {[1..n -> Kinds] : n \in 0..MaxDevices}

LocalsInit ==
    /\ devices = <<>>
    /\ tag_cellular = <<>> /\ tag_wifi = <<>>
    /\ untag_cellular = <<>> /\ untag_wifi = <<>>
    /\ has_cell = <<>>
    /\ phase = "none" /\ serials = <<>> /\ tag = None /\ action = None
    /\ i = 0 /\ ret = "none"
    /\ calls = <<>>

Init ==
    /\ cellular_tag = DEFAULT_CELLULAR_TAG
    /\ wifi_tag \in TagNames
    /\ remove_wrong \in BOOLEAN
    /\ \E ks \in KindLists, rep \in {1, BulkRep} : inventory = Inventory(ks, rep)
    /\ LocalsInit
    /\ pc = "start"
    /\ run = 1

RunStep ==
    \/ Start
    \/ Resolve
    \/ FetchOk
    \/ FetchFail
    \/ PlanStep
    \/ EnterPhaseCall
    \/ EnterPhaseSkip
    \/ BatchCallOk
    \/ BatchCallFail
    \/ BatchReturn

\* One invocation of the script.
Next == RunStep

Spec == Init /\ [][Next]_vars

\* Invocations one after the other.
NextRerun == RunStep \/ Rerun

RerunSpec == Init /\ [][NextRerun]_vars

(***************************************************************************)
(* batch_modify_tags called on its own, with any list of identifiers       *)
(***************************************************************************)
BatchKinds ==
    [id : {"valid"}, cell : {SomeCellular},
     tags : {TagList({}), TagList({DEFAULT_CELLULAR_TAG, OtherTag})}]

BatchInit ==
    /\ cellular_tag = DEFAULT_CELLULAR_TAG
    /\ wifi_tag = DEFAULT_WIFI_ONLY_TAG
    /\ remove_wrong = FALSE
    /\ \E n \in 0..MaxSerials, kind \in BatchKinds :
           /\ inventory = Inventory(<<kind>>, n)
           /\ serials = [k \in 1..n |-> DeviceIdAt(k)]
    /\ tag \in {DEFAULT_CELLULAR_TAG, OtherTag}
    /\ action \in {"add", "delete"}
    /\ devices = <<>>
    /\ tag_cellular = <<>> /\ tag_wifi = <<>>
    /\ untag_cellular = <<>> /\ untag_wifi = <<>>
    /\ has_cell = <<>>
    /\ phase = "direct" /\ i = 0 /\ ret = "returned"
    /\ calls = <<>>
    /\ pc = "batch"
    /\ run = 1

BatchNext == BatchCallOk \/ BatchCallFail \/ BatchReturn

BatchSpec == BatchInit /\ [][BatchNext]_vars

(***************************************************************************)
(* The planner on one snapshot, each field taking every kind of value      *)
(***************************************************************************)
FieldValues == {None, "", "8901260"}
AllTags == {DEFAULT_CELLULAR_TAG, DEFAULT_WIFI_ONLY_TAG, OtherTag}

Snapshots ==
    [id : {None, "", DeviceIdAt(1)}, imei : FieldValues, iccid : FieldValues,
     simCarrierNetwork : FieldValues, phoneNumber : FieldValues,
     tags : {TagList(s) : s \in SUBSET AllTags} \cup {NullTags}]

PlanInit ==
    /\ cellular_tag = DEFAULT_CELLULAR_TAG
    /\ wifi_tag \in TagNames
    /\ remove_wrong \in BOOLEAN
    /\ \E snapshot \in Snapshots : inventory = <<snapshot>>
    /\ devices = inventory
    /\ tag_cellular = <<>> /\ tag_wifi = <<>>
    /\ untag_cellular = <<>> /\ untag_wifi = <<>>
    /\ has_cell = <<>>
    /\ phase = "none" /\ serials = <<>> /\ tag = None /\ action = None
    /\ i = 0 /\ ret = "none"
    /\ calls = <<>>
    /\ pc = "plan"
    /\ run = 1

PlanNext == PlanStep

PlanSpec == PlanInit /\ [][PlanNext]_vars

(***************************************************************************)
(* Properties                                                              *)
(***************************************************************************)
\* The planning loop has run in this invocation.
Planned ==
    \/ pc \in Phases \cup {"batch", "done"}
    \/ pc = "crashed" /\ phase # "none"

\* The mutation calls of the current invocation, in the order issued.
CallsOfRun == SelectSeq(calls, LAMBDA c : c.run = run)

RECURSIVE Flatten(_)
Flatten(ss) == IF ss = <<>> THEN <<>> ELSE Head(ss) \o Flatten(Tail(ss))

IdsOf(cs) == Flatten([k \in 1..Len(cs) |-> cs[k].ids])

\* The tags a snapshot lists (none for null).
TagsOf(d) == IF d.tags.null THEN {} ELSE d.tags.list

CellFields(d) == {d.imei, d.iccid, d.simCarrierNetwork, d.phoneNumber}

\* At least one cellular field is not null.
AnyNonNull(d) == \E f \in CellFields(d) : f # None

\* At least one cellular field is neither null nor empty.
AnyNonEmpty(d) == \E f \in CellFields(d) : f # None /\ f # ""

HasId(d) == d.id # None /\ d.id # ""

\* The identifiers, in list order, of the snapshots of devs that satisfy Test.
IdsWhere(devs, Test(_)) ==
    LET sel == SelectSeq(devs, Test)
    IN  [k \in 1..Len(sel) |-> sel[k].id]

\* C2 as stated: a device is classified cellular exactly when one of imei, iccid,
\* simCarrierNetwork, phoneNumber is present, present meaning neither null nor
\* empty; otherwise it is wifi-only, and every snapshot gets one of the two classes.
C2_ClassifyNonEmpty ==
    pc # "plan" =>
        \A k \in 1..Len(devices) :
            HasId(devices[k]) =>
                /\ has_cell[k] \in {"True", "False"}
                /\ has_cell[k] = "True" <=> AnyNonEmpty(devices[k])

\* C2 amended: a device is classified cellular exactly when one of the four fields
\* is not null (an empty string counts as present); it is wifi-only exactly when
\* all four are null, and every snapshot the loop classifies gets one of the two
\* classes.
C2_ClassifyNonNull ==
    /\ \A k \in 1..Len(devices) : HasCell(devices[k]) \in BOOLEAN
    /\ pc # "plan" =>
           /\ Len(has_cell) = Len(devices)
           /\ \A k \in 1..Len(devices) :
                  HasId(devices[k]) =>
                      /\ has_cell[k] \in {"True", "False"}
                      /\ has_cell[k] = "True" <=> AnyNonNull(devices[k])
                      /\ has_cell[k] = "False" <=>
                             \A f \in CellFields(devices[k]) : f = None

\* A snapshot whose only cellular evidence is an empty string has been classified
\* cellular.
C2_Witness ==
    /\ pc # "plan"
    /\ Len(devices) = 1
    /\ HasId(devices[1])
    /\ CellFields(devices[1]) = {None, ""}
    /\ has_cell = <<"True">>

\* C3: batch_modify_tags on N identifiers issues ceil(N/20) calls when none fails,
\* each with 1 to 20 identifiers, the given tag alone and the given action; the
\* batches in call order make up the list in its order; N = 0 issues no call.
C3_Batching ==
    LET N == Len(serials)
        okCalls == SelectSeq(calls, LAMBDA c : c.ok)
    IN  /\ \A k \in 1..Len(calls) :
               /\ Len(calls[k].ids) >= 1
               /\ Len(calls[k].ids) <= 20
               /\ calls[k].tags = <<tag>>
               /\ calls[k].updateAction = action
        /\ IdsOf(okCalls) = SubSeq(serials, 1, Min(i, N))
        /\ pc = "returned" =>
               /\ okCalls = calls
               /\ Len(calls) = (N + 19) \div 20
               /\ IdsOf(calls) = serials
               /\ (N = 0 => calls = <<>>)

\* 45 identifiers have gone out in three calls of 20, 20 and 5.
C3_Witness ==
    /\ pc = "returned"
    /\ Len(serials) = 45
    /\ Len(calls) = 3
    /\ <<Len(calls[1].ids), Len(calls[2].ids), Len(calls[3].ids)>> = <<20, 20, 5>>

\* C4: a device with an identifier is in the add queue of its capability exactly
\* when its tags lack the tag of its capability, and in the remove queue of the
\* opposite tag exactly when remove-wrong is set and its tags hold the opposite
\* tag; each queue keeps the order of the device list.
C4_PlannerRule ==
    Planned =>
        /\ tag_cellular =
               IdsWhere(devices, LAMBDA d :
                   HasId(d) /\ AnyNonNull(d) /\ cellular_tag \notin TagsOf(d))
        /\ tag_wifi =
               IdsWhere(devices, LAMBDA d :
                   HasId(d) /\ ~ AnyNonNull(d) /\ wifi_tag \notin TagsOf(d))
        /\ untag_wifi =
               IdsWhere(devices, LAMBDA d :
                   HasId(d) /\ remove_wrong /\ AnyNonNull(d) /\ wifi_tag \in TagsOf(d))
        /\ untag_cellular =
               IdsWhere(devices, LAMBDA d :
                   HasId(d) /\ remove_wrong /\ ~ AnyNonNull(d)
                   /\ cellular_tag \in TagsOf(d))

\* With remove-wrong set and different tags, a cellular device tagged wifi is queued
\* for both the add and the remove, while a correctly tagged device of the same
\* list is in no queue (scenarios A and C).
C4_Witness ==
    /\ Planned
    /\ remove_wrong
    /\ cellular_tag # wifi_tag
    /\ \E k \in 1..Len(devices) :
           /\ devices[k].id \in Range(tag_cellular)
           /\ devices[k].id \in Range(untag_wifi)
    /\ \E k \in 1..Len(devices) :
           /\ HasId(devices[k])
           /\ devices[k].id \notin
                  Range(tag_cellular) \cup Range(tag_wifi)
                  \cup Range(untag_cellular) \cup Range(untag_wifi)

\* C5: no identifier is in both add queues, and none is in both remove queues.
C5_QueuesExclusive ==
    /\ Range(tag_cellular) \cap Range(tag_wifi) = {}
    /\ Range(untag_cellular) \cap Range(untag_wifi) = {}

\* Both add queues and both remove queues are in use, and one identifier is in an
\* add queue and a remove queue at once.
C5_Witness ==
    /\ tag_cellular # <<>> /\ tag_wifi # <<>>
    /\ untag_cellular # <<>> /\ untag_wifi # <<>>
    /\ Range(tag_cellular) \cap Range(untag_wifi) # {}

\* The place of a queue in the order add cellular, add wifi, delete cellular,
\* delete wifi.
PhaseIndex(q) ==
    CASE q = "add_cellular" -> 1
      [] q = "add_wifi" -> 2
      [] q = "untag_cellular" -> 3
      [] q = "untag_wifi" -> 4

\* The mutation calls of the current invocation issued for queue q before the k-th.
CallsBefore(q, k) ==
    SelectSeq(SubSeq(CallsOfRun, 1, k - 1), LAMBDA c : c.queue = q)

\* C6: the calls go out in the order add cellular-tag, add wifi-tag, and with
\* remove-wrong delete cellular-tag, delete wifi-tag; a call of a queue is issued
\* only after every batch of each earlier queue has gone out, and only after the
\* device fetch.
C6_FixedOrder ==
    LET cs == CallsOfRun
    IN  /\ cs # <<>> => Planned /\ Len(devices) = Len(inventory)
        /\ \A k \in 1..Len(cs) :
               /\ cs[k].queue \in Phases
               /\ cs[k].tags = <<IF cs[k].queue \in {"add_cellular", "untag_cellular"}
                                   THEN cellular_tag ELSE wifi_tag>>
               /\ cs[k].updateAction =
                      IF cs[k].queue \in {"add_cellular", "add_wifi"}
                      THEN "add" ELSE "delete"
               /\ cs[k].updateAction = "delete" => remove_wrong
               /\ \A j \in 1..(k - 1) :
                      /\ cs[j].ok
                      /\ PhaseIndex(cs[j].queue) <= PhaseIndex(cs[k].queue)
               /\ \A q \in Phases :
                      (PhaseIndex(q) < PhaseIndex(cs[k].queue)
                       /\ (remove_wrong \/ PhaseIndex(q) <= 2))
                          => IdsOf(CallsBefore(q, k)) = QueueOf(q)

\* A completed invocation that issued calls for all four queues, more than one
\* batch for each.
C6_Witness ==
    /\ pc = "done"
    /\ \A q \in Phases : Len(CallsBefore(q, Len(CallsOfRun) + 1)) >= 2

\* C7: a missing credential or an unresolved name ends the invocation before any
\* mutation call; a failed fetch or a failed batch ends it too: the failed batch is
\* the last call issued (no retry, no later batch, no later queue), and the batches
\* that succeeded before it stay applied.
C7_StopOnFirstError ==
    LET cs == CallsOfRun
    IN  /\ pc = "exit" => cs = <<>>
        /\ pc = "crashed" /\ cs = <<>> => devices = <<>>
        /\ \A k \in 1..Len(cs) :
               /\ ~ cs[k].ok => k = Len(cs) /\ pc = "crashed"
               /\ cs[k].ok =>
                      \A p \in 1..Len(inventory) :
                          inventory[p].id \in Range(cs[k].ids) =>
                              IF cs[k].updateAction = "add"
                              THEN cs[k].tags[1] \in TagsOf(inventory[p])
                              ELSE cs[k].tags[1] \notin TagsOf(inventory[p])
        /\ pc = "crashed" /\ cs # <<>> => ~ cs[Len(cs)].ok
        /\ pc \in {"exit", "crashed"} => ~ ENABLED Next

\* The second batch of the first queue failed after the first succeeded, with a
\* later queue waiting.
C7_Witness ==
    /\ pc = "crashed"
    /\ Len(CallsOfRun) = 2
    /\ CallsOfRun[1].ok /\ ~ CallsOfRun[2].ok
    /\ CallsOfRun[2].queue = "add_cellular"
    /\ tag_wifi # <<>>
    /\ \E p \in 1..Len(inventory) :
           /\ inventory[p].id \in Range(CallsOfRun[1].ids)
           /\ cellular_tag \in TagsOf(inventory[p])
           /\ cellular_tag \notin TagsOf(devices[p])

\* The queues the planner builds from the list with the snapshots without an
\* identifier taken out.
PlanWithout == Plan(SelectSeq(devices, LAMBDA d : d.id # None))

\* C8: a snapshot without an identifier is skipped: it is in no queue and in no
\* call, the loop goes on to the end of the list, and when the loop has ended the
\* other devices are queued as they are without it.
C8_MalformedSkipped ==
    /\ \A q \in Phases : None \notin Range(QueueOf(q))
    /\ \A k \in 1..Len(calls) : None \notin Range(calls[k].ids)
    /\ Planned =>
           /\ Len(has_cell) = Len(devices)
           /\ \A k \in 1..Len(devices) :
                  devices[k].id = None => has_cell[k] = "skipped"
    /\ pc = "add_cellular" =>
           /\ tag_cellular = PlanWithout.tag_cellular
           /\ tag_wifi = PlanWithout.tag_wifi
           /\ untag_cellular = PlanWithout.untag_cellular
           /\ untag_wifi = PlanWithout.untag_wifi

\* A list whose first snapshot has no identifier and whose later device has been
\* queued and tagged, the invocation completed.
C8_Witness ==
    /\ pc = "done"
    /\ Len(devices) >= 2
    /\ devices[1].id = None
    /\ devices[Len(devices)].id \in Range(tag_cellular)
    /\ cellular_tag \in TagsOf(inventory[Len(inventory)])

\* C9: every call names one tag, the cellular tag or the wifi tag, and only
\* devices of the queue it is issued for; no other tag of any device changes, and
\* without remove-wrong no delete is issued and no device loses a tag.
C9_Frame ==
    /\ \A k \in 1..Len(CallsOfRun) :
           LET c == CallsOfRun[k]
           IN  /\ Len(c.tags) = 1
               /\ c.tags[1] \in {cellular_tag, wifi_tag}
               /\ Range(c.ids) \subseteq Range(QueueOf(c.queue))
               /\ ~ remove_wrong => c.updateAction # "delete"
    /\ Planned =>
           /\ Len(devices) = Len(inventory)
           /\ \A p \in 1..Len(inventory) :
                  /\ inventory[p].id = devices[p].id
                  /\ TagsOf(inventory[p]) \ {cellular_tag, wifi_tag}
                         = TagsOf(devices[p]) \ {cellular_tag, wifi_tag}
                  /\ ~ remove_wrong => TagsOf(devices[p]) \subseteq TagsOf(inventory[p])
                  /\ devices[p].id \notin
                         Range(tag_cellular) \cup Range(tag_wifi)
                         \cup Range(untag_cellular) \cup Range(untag_wifi)
                       => TagsOf(inventory[p]) = TagsOf(devices[p])

\* Without remove-wrong, a cellular device that carried the wifi tag has been given
\* the cellular tag and has kept the wifi tag, and a wifi-only device has kept the
\* cellular tag and the third tag it carried.
C9_Witness ==
    /\ pc = "done"
    /\ ~ remove_wrong
    /\ cellular_tag # wifi_tag
    /\ \E p \in 1..Len(inventory) :
           /\ AnyNonNull(devices[p])
           /\ TagsOf(devices[p]) = {wifi_tag}
           /\ TagsOf(inventory[p]) = {cellular_tag, wifi_tag}
    /\ \E p \in 1..Len(inventory) :
           /\ HasId(inventory[p]) /\ ~ AnyNonNull(inventory[p])
           /\ TagsOf(inventory[p]) = {cellular_tag, wifi_tag, OtherTag}

\* Every device with an identifier carries the tag of its capability, and with
\* remove-wrong and two different tags none carries the opposite tag.
Converged ==
    \A p \in 1..Len(inventory) :
        HasId(inventory[p]) =>
            LET own == IF AnyNonNull(inventory[p]) THEN cellular_tag ELSE wifi_tag
                opposite == IF AnyNonNull(inventory[p]) THEN wifi_tag ELSE cellular_tag
            IN  /\ (cellular_tag # wifi_tag \/ ~ remove_wrong)
                       => own \in TagsOf(inventory[p])
                /\ (cellular_tag # wifi_tag /\ remove_wrong)
                       => opposite \notin TagsOf(inventory[p])

\* The statements main has left after position p, counted in whole phases.
PhasesLeft(p) ==
    CASE p = "add_cellular" -> 4
      [] p = "add_wifi" -> 3
      [] p = "untag_cellular" -> 2
      [] p = "untag_wifi" -> 1
      [] OTHER -> 0

\* A bound on the steps the invocation has left: it is 0 once the invocation has
\* ended, and every step lowers it.
StepsLeft ==
    LET perPhase == Len(inventory) + 3
    IN  CASE pc = "start" -> 5 * perPhase + 3
          [] pc = "resolve" -> 5 * perPhase + 2
          [] pc = "fetch" -> 5 * perPhase + 1
          [] pc = "plan" -> 5 * perPhase
          [] pc \in Phases -> PhasesLeft(pc) * perPhase
          [] pc = "batch" ->
                 PhasesLeft(ret) * perPhase + 1
                 + (IF i < Len(serials) THEN Len(serials) - i ELSE 0)
          [] OTHER -> 0

\* C10: the invocation ends (it can step until it has ended, and each step lowers
\* the bound on the steps left), and when it has ended without a failure every
\* device with an identifier carries the tag of its capability and, with
\* remove-wrong and two different tags, not the opposite tag.
C10_Convergence ==
    /\ [](pc = "done" => Converged)
    /\ [](pc \in {"done", "exit", "crashed"} \/ ENABLED Next)
    /\ [](StepsLeft \in Nat)
    /\ [][StepsLeft' < StepsLeft]_vars

\* A completed invocation with remove-wrong that added the right tag and removed the
\* wrong one on the same device.
C10_Witness ==
    /\ pc = "done"
    /\ remove_wrong
    /\ cellular_tag # wifi_tag
    /\ \E p \in 1..Len(inventory) :
           /\ TagsOf(devices[p]) = {wifi_tag}
           /\ TagsOf(inventory[p]) = {cellular_tag}

\* C1: an invocation that follows a completed one, with nothing else changed in
\* between, queues no device and issues no mutation call, whatever the two tags
\* and remove-wrong are.
C1_Idempotent ==
    run >= 2 =>
        /\ tag_cellular = <<>> /\ tag_wifi = <<>>
        /\ untag_cellular = <<>> /\ untag_wifi = <<>>
        /\ CallsOfRun = <<>>

\* The same, for two different tags or without remove-wrong.
IdempotentDistinctTags ==
    (run >= 2 /\ (cellular_tag # wifi_tag \/ ~ remove_wrong)) =>
        /\ tag_cellular = <<>> /\ tag_wifi = <<>>
        /\ untag_cellular = <<>> /\ untag_wifi = <<>>
        /\ CallsOfRun = <<>>

====
